---- MODULE Spec2Model ----
(***************************************************************************)
(* Ground Truth Validation app (src/main.py): the Streamlit session state  *)
(* (record store gdf, filtered view filtered_gdf, cursor, map focus), the  *)
(* loader load_data, and one action per user interaction.  Every user      *)
(* interaction is a callback or button handler followed by a full run of   *)
(* the script body (upload handling, view initialisation, point clamp).    *)
(*                                                                         *)
(* A DataFrame is a sequence of rows; every row carries its pandas index   *)
(* label in the field "index".  iloc position p (0-based) is sequence      *)
(* position p + 1.  Python's None is the empty tuple, a present value x is *)
(* the one-element tuple <<x>>.                                            *)
(***************************************************************************)
EXTENDS Integers, Sequences, FiniteSets, TLC

VARIABLES
    session_state,              \* st.session_state, main.py:116-133
    uploaded_files_list_widget, \* value of the file_uploader widget, main.py:336
    event,                      \* what the last interaction was and what it displayed
    validations                 \* number of Correct/Incorrect clicks so far

vars == <<session_state, uploaded_files_list_widget, event, validations>>

\* ------------------------------------------------------------------ bounds
MaxRows == 11          \* rows of the largest uploaded table
SmallRows == 2         \* rows of the tables without attribute columns
DupRows == 5           \* rows of the table with repeated coordinates
MaxValidations == 1    \* Correct/Incorrect clicks explored per behaviour
MaxStale == 1          \* how far past the batch size a stored point index is tried
MaxBatchSize == 4      \* batch sizes 1..MaxBatchSize are tried besides the app's own

\* ------------------------------------------------------- program constants
batch_size_default == 10
map_zoom_default == 18

None == <<>>
Some(x) == <<x>>
Get(o) == o[1]

Min(a, b) == IF a < b THEN a ELSE b

\* math.ceil(a / b) for a >= 0, b > 0
Ceil(a, b) == (a + b - 1) \div b

\* ---------------------------------------------------------- uploaded data
\* Cell values of a source "validation" column: Python booleans, a missing
\* cell (NaN) or a string.
PyTrue == "<bool True>"
PyFalse == "<bool False>"
PyNaN == "<float nan>"

\* str(x) as astype(str) renders a non-boolean cell
PyStr(x) == IF x = PyNaN THEN "nan" ELSE x

\* the lambda of main.py:217 followed by astype(str)
MapValidation(x) ==
    IF x = PyTrue THEN "Correct"
    ELSE IF x = PyFalse THEN "Incorrect"
    ELSE PyStr(x)

\* Tables the ingestion layer can hand over.  Row i of an n-row table:
\*   "plain" : coordinates only (no crop_name, S_No, validation columns)
\*   "crops" : crop_name column, row 2 is Rice, the others Wheat
\*   "dups"  : crop_name, S_No and validation columns; row 3 repeats the
\*             coordinates of row 1 and row 6 those of row 5; S_No of row 4
\*             repeats that of row 2
RawLatitude(kind, i) ==
    IF kind = "dups" /\ i = 3 THEN 1
    ELSE IF kind = "dups" /\ i = 6 THEN 5
    ELSE i

RawCrop(kind, i) ==
    IF kind = "crops" THEN (IF i = 2 THEN "Rice" ELSE "Wheat")
    ELSE IF i % 2 = 0 THEN "Rice" ELSE "Maize"

RawSNo(kind, i) == IF i = 4 THEN 102 ELSE 100 + i

RawValidation(kind, i) ==
    IF i = 1 THEN PyTrue
    ELSE IF i = 2 THEN PyFalse
    ELSE IF i = 4 THEN PyNaN
    ELSE "Not Validated"

RawCell(kind, i, column) ==
    CASE column = "latitude" -> RawLatitude(kind, i)
      [] column = "longitude" -> 100 + RawLatitude(kind, i)
      [] column = "crop_name" -> RawCrop(kind, i)
      [] column = "S_No" -> RawSNo(kind, i)
      [] column = "validation" -> RawValidation(kind, i)

TableColumns(kind) ==
    IF kind = "plain" THEN {"latitude", "longitude"}
    ELSE IF kind = "crops" THEN {"latitude", "longitude", "crop_name"}
    ELSE {"latitude", "longitude", "crop_name", "S_No", "validation"}

\* a table with the given columns; a row maps each column to its cell
TableWith(kind, columns, n) ==
    [columns |-> columns,
     rows |-> [i \in 1..n |-> [c \in columns |-> RawCell(kind, i, c)]]]

Table(kind, n) == TableWith(kind, TableColumns(kind), n)

\* a file is its name, split into stem and (lower-cased) extension
File(stem, ext) == [stem |-> stem, ext |-> ext]

NoUpload == [files |-> {}, table |-> Table("plain", 0)]

CsvUpload(kind, n) ==
    [files |-> {File(<<kind, n>>, ".csv")}, table |-> Table(kind, n)]

ShpUpload(kind, n) ==
    [files |-> {File(<<kind, n>>, e) : e \in {".shp", ".shx", ".dbf", ".prj"}},
     table |-> Table(kind, n)]

\* uploads load_data rejects
MixedUpload ==
    [files |-> {File(<<"mixed", 2>>, e) : e \in {".shp", ".shx", ".dbf", ".csv"}},
     table |-> Table("plain", 2)]
IncompleteShpUpload ==
    [files |-> {File(<<"incomplete", 2>>, e) : e \in {".shp", ".shx"}},
     table |-> Table("plain", 2)]
CsvNoCoordinatesUpload ==
    [files |-> {File(<<"nocoords", 2>>, ".csv")},
     table |-> TableWith("crops", {"crop_name"}, 2)]
UnsupportedUpload ==
    [files |-> {File(<<"unsupported", 0>>, ".prj")}, table |-> Table("plain", 0)]

BadUploads ==
    {MixedUpload, IncompleteShpUpload, CsvNoCoordinatesUpload, UnsupportedUpload}

GoodUploads ==
    {CsvUpload("plain", n) : n \in 1..SmallRows}
        \cup {ShpUpload("plain", 0)}
        \cup {ShpUpload("crops", MaxRows)}
        \cup {CsvUpload("dups", DupRows)}

\* what the user can put into the uploader
Uploads == GoodUploads \cup BadUploads

\* current_uploaded_files_names, main.py:342 (the sorted list of names of a
\* set of distinctly named files, compared only for equality)
FileNames(up) == up.files

\* ------------------------------------------------------------- load_data
shp_required_extensions == {".shp", ".shx", ".dbf"}

\* the rows of s at the positions in keep, in order
RECURSIVE Pick(_, _, _)
Pick(s, keep, i) ==
    IF i > Len(s) THEN <<>>
    ELSE IF i \in keep THEN <<s[i]>> \o Pick(s, keep, i + 1)
    ELSE Pick(s, keep, i + 1)

\* DataFrame boolean-mask selection df[df[column] == value], labels kept
SelectEq(df, column, value) ==
    Pick(df, {i \in 1..Len(df) : df[i][column] = value}, 1)

\* columns added when missing, main.py:204-218
WithDefaults(table) ==
    [i \in 1..Len(table.rows) |->
        [index |-> i - 1,
         latitude |-> table.rows[i].latitude,
         longitude |-> table.rows[i].longitude,
         crop_name |-> IF "crop_name" \in table.columns
                       THEN table.rows[i].crop_name ELSE "Unknown Crop",
         S_No |-> IF "S_No" \in table.columns THEN table.rows[i].S_No ELSE i,
         validation |-> IF "validation" \in table.columns
                        THEN MapValidation(table.rows[i].validation)
                        ELSE "Not Validated"]]

\* faulty variant: the last row of each coordinate pair is kept
drop_duplicates_keep_last(df) ==
    Pick(df, {i \in 1..Len(df) :
                \A j \in (i + 1)..Len(df) :
                    <<df[j].latitude, df[j].longitude>>
                        # <<df[i].latitude, df[i].longitude>>}, 1)

\* drop_duplicates(subset=[temp_latitude, temp_longitude]), keep="first"
drop_duplicates(df) ==
    Pick(df, {i \in 1..Len(df) :
                \A j \in 1..(i - 1) :
                    <<df[j].latitude, df[j].longitude>>
                        # <<df[i].latitude, df[i].longitude>>}, 1)

\* main.py:204-232: the loaded frame and the duplicate warning, if any
FinishLoad(table) ==
    LET initial == WithDefaults(table)
        initial_len == Len(initial)
        gdf == drop_duplicates(initial)
    IN [gdf |-> Some(gdf),
        message |-> "loaded",
        removed |-> IF Len(gdf) < initial_len
                    THEN Some(initial_len - Len(gdf)) ELSE None]

LoadFailure(message) == [gdf |-> None, message |-> message, removed |-> None]

\* faulty variant: the test for missing shapefile components is left out
load_data_any_components(up) ==
    IF up.files = {} THEN LoadFailure("no_files")
    ELSE
    LET uploaded_extensions == {f.ext : f \in up.files}
        is_shp_upload == uploaded_extensions \cap shp_required_extensions # {}
        is_csv_upload == ".csv" \in uploaded_extensions
    IN IF is_shp_upload /\ is_csv_upload
       THEN LoadFailure("warning_shapefile_and_csv")
       ELSE IF ".shp" \in uploaded_extensions
       THEN FinishLoad(up.table)
       ELSE IF ".csv" \in uploaded_extensions
       THEN IF "latitude" \notin up.table.columns
               \/ "longitude" \notin up.table.columns
            THEN LoadFailure("error_csv_missing_latitude_longitude")
            ELSE FinishLoad(up.table)
       ELSE LoadFailure("error_no_supported_file")

load_data(up) ==
    IF up.files = {} THEN LoadFailure("no_files")
    ELSE
    LET uploaded_extensions == {f.ext : f \in up.files}
        is_shp_upload == uploaded_extensions \cap shp_required_extensions # {}
        is_csv_upload == ".csv" \in uploaded_extensions
    IN IF is_shp_upload /\ is_csv_upload
       THEN LoadFailure("warning_shapefile_and_csv")
       ELSE IF is_shp_upload
               /\ ~(shp_required_extensions \subseteq uploaded_extensions)
       THEN LoadFailure("warning_missing_shapefile_components")
       ELSE IF ".shp" \in uploaded_extensions
       THEN FinishLoad(up.table)
       ELSE IF ".csv" \in uploaded_extensions
       THEN IF "latitude" \notin up.table.columns
               \/ "longitude" \notin up.table.columns
            THEN LoadFailure("error_csv_missing_latitude_longitude")
            ELSE FinishLoad(up.table)
       ELSE LoadFailure("error_no_supported_file")

\* ---------------------------------------------------------- session state
\* main.py:116-133
InitialSessionState ==
    [current_point |-> 0,
     filtered_gdf |-> None,
     selected_crop |-> "All",
     map_center |-> [kind |-> "initial", latitude |-> 0, longitude |-> 0],
     map_zoom_level |-> map_zoom_default,
     gdf |-> None,
     batch_size |-> batch_size_default,
     current_batch |-> 0,
     last_uploaded_files_names |-> {}]

\* a Python slice bound brought into 0..len(df)
SliceBound(df, i) ==
    IF i < 0 THEN (IF Len(df) + i < 0 THEN 0 ELSE Len(df) + i)
    ELSE Min(i, Len(df))

\* df.iloc[start_idx:end_idx]
ILocSlice(df, start_idx, end_idx) ==
    SubSeq(df, SliceBound(df, start_idx) + 1, SliceBound(df, end_idx))

\* df.iloc[i] for -len(df) <= i < len(df): a negative i counts from the end
ILoc(df, i) == IF i < 0 THEN df[Len(df) + i + 1] ELSE df[i + 1]

\* faulty variant: the slice ends one row early
get_current_batch_points_short(ss, gdf, batch_size) ==
    IF gdf = None \/ Get(gdf) = <<>> THEN <<>>
    ELSE LET start_idx == ss.current_batch * batch_size
             end_idx == start_idx + batch_size - 1
         IN ILocSlice(Get(gdf), start_idx, end_idx)

\* main.py:255-260; gdf is an optional frame
get_current_batch_points(ss, gdf, batch_size) ==
    IF gdf = None \/ Get(gdf) = <<>> THEN <<>>
    ELSE LET start_idx == ss.current_batch * batch_size
             end_idx == start_idx + batch_size
         IN ILocSlice(Get(gdf), start_idx, end_idx)

\* main.py:244-253 and the averaging of the bounds at the call sites: the
\* centre of the 30 m buffer square around the point, computed through a
\* Web-Mercator round trip (a value derived from the point, not the point)
BufferCentre(row) ==
    [kind |-> "buffer_centre", latitude |-> row.latitude, longitude |-> row.longitude]

\* faulty variant: the view is rebuilt but current_point is not reset
update_filtered_data_keep_point(ss) ==
    IF ss.gdf = None THEN ss
    ELSE
    LET filtered ==
            IF ss.selected_crop # "All"
            THEN SelectEq(Get(ss.gdf), "crop_name", ss.selected_crop)
            ELSE Get(ss.gdf)
        reset == [ss EXCEPT !.filtered_gdf = Some(filtered), !.current_batch = 0]
        batch_points_df ==
            get_current_batch_points(reset, reset.filtered_gdf, reset.batch_size)
    IN IF filtered # <<>> /\ batch_points_df # <<>>
       THEN [reset EXCEPT !.map_center = BufferCentre(ILoc(batch_points_df, 0)),
                          !.map_zoom_level = 18]
       ELSE reset

\* faulty variant: the category is selected from the view on display
update_filtered_data_from_view(ss) ==
    IF ss.gdf = None THEN ss
    ELSE
    LET shown == IF ss.filtered_gdf = None THEN Get(ss.gdf) ELSE Get(ss.filtered_gdf)
        filtered ==
            IF ss.selected_crop # "All"
            THEN SelectEq(shown, "crop_name", ss.selected_crop)
            ELSE Get(ss.gdf)
        reset == [ss EXCEPT !.filtered_gdf = Some(filtered),
                            !.current_batch = 0,
                            !.current_point = 0]
        batch_points_df ==
            get_current_batch_points(reset, reset.filtered_gdf, reset.batch_size)
    IN IF filtered # <<>> /\ batch_points_df # <<>>
       THEN [reset EXCEPT !.map_center = BufferCentre(ILoc(batch_points_df, 0)),
                          !.map_zoom_level = 18]
       ELSE reset

\* main.py:262-282
update_filtered_data_and_reset_nav(ss) ==
    IF ss.gdf = None THEN ss
    ELSE
    LET filtered ==
            IF ss.selected_crop # "All"
            THEN SelectEq(Get(ss.gdf), "crop_name", ss.selected_crop)
            ELSE Get(ss.gdf)
        reset == [ss EXCEPT !.filtered_gdf = Some(filtered),
                            !.current_batch = 0,
                            !.current_point = 0]
        batch_points_df ==
            get_current_batch_points(reset, reset.filtered_gdf, reset.batch_size)
    IN IF filtered # <<>> /\ batch_points_df # <<>>
       THEN [reset EXCEPT !.map_center = BufferCentre(ILoc(batch_points_df, 0)),
                          !.map_zoom_level = 18]
       ELSE reset

\* faulty variant: the focus is taken from the first row of the batch
zoom_to_first_point(ss) ==
    IF ss.filtered_gdf # None /\ Get(ss.filtered_gdf) # <<>>
    THEN LET batch_points_df ==
                 get_current_batch_points(ss, ss.filtered_gdf, ss.batch_size)
         IN IF batch_points_df # <<>> /\ ss.current_point < Len(batch_points_df)
            THEN [ss EXCEPT
                    !.map_center = BufferCentre(ILoc(batch_points_df, 0)),
                    !.map_zoom_level = 18]
            ELSE ss
    ELSE ss

\* faulty variant: without a row to centre on the map goes back to its
\* initial centre
zoom_to_current_point_or_reset(ss) ==
    LET batch_points_df ==
            get_current_batch_points(ss, ss.filtered_gdf, ss.batch_size)
    IN IF batch_points_df # <<>> /\ ss.current_point < Len(batch_points_df)
       THEN [ss EXCEPT
                !.map_center = BufferCentre(ILoc(batch_points_df, ss.current_point)),
                !.map_zoom_level = 18]
       ELSE [ss EXCEPT !.map_center = InitialSessionState.map_center]

\* main.py:284-294
zoom_to_current_point(ss) ==
    IF ss.filtered_gdf # None /\ Get(ss.filtered_gdf) # <<>>
    THEN LET batch_points_df ==
                 get_current_batch_points(ss, ss.filtered_gdf, ss.batch_size)
         IN IF batch_points_df # <<>> /\ ss.current_point < Len(batch_points_df)
            THEN [ss EXCEPT
                    !.map_center = BufferCentre(ILoc(batch_points_df, ss.current_point)),
                    !.map_zoom_level = 18]
            ELSE ss
    ELSE ss

\* ------------------------------------------------------- the script body
\* main.py:344-354: is load_data called in this run
LoadAttempted(ss, up) ==
    /\ up.files # {}
    /\ (ss.gdf = None \/ FileNames(up) # ss.last_uploaded_files_names)

UploadHandling(ss, up) ==
    IF LoadAttempted(ss, up)
    THEN LET loaded == load_data(up)
         IN IF loaded.gdf # None
            THEN update_filtered_data_and_reset_nav(
                    [ss EXCEPT !.gdf = loaded.gdf,
                               !.last_uploaded_files_names = FileNames(up),
                               !.selected_crop = "All"])
            ELSE [ss EXCEPT !.gdf = None, !.last_uploaded_files_names = {}]
    ELSE ss

\* main.py:367-368
InitialiseView(ss) ==
    IF ss.gdf # None /\ ss.filtered_gdf = None
    THEN update_filtered_data_and_reset_nav(ss)
    ELSE ss

\* main.py:408-415: the main area with its buttons is rendered
MainAreaShown(ss) ==
    /\ ss.gdf # None
    /\ ss.filtered_gdf # None
    /\ Get(ss.filtered_gdf) # <<>>
    /\ get_current_batch_points(ss, ss.filtered_gdf, ss.batch_size) # <<>>

\* main.py:410-411 (the view is not empty here)
total_batches(ss) ==
    LET n == Ceil(Len(Get(ss.filtered_gdf)), ss.batch_size)
    IN IF n = 0 THEN 1 ELSE n

\* faulty variant: an index equal to the length of the batch is let through
ClampPoint_off_by_one(ss) ==
    IF MainAreaShown(ss)
    THEN LET batch_points_df ==
                 get_current_batch_points(ss, ss.filtered_gdf, ss.batch_size)
         IN IF ss.current_point > Len(batch_points_df)
            THEN [ss EXCEPT !.current_point =
                        IF Len(batch_points_df) > 0
                        THEN Len(batch_points_df) - 1 ELSE 0]
            ELSE ss
    ELSE ss

\* main.py:415-417
ClampPoint(ss) ==
    IF MainAreaShown(ss)
    THEN LET batch_points_df ==
                 get_current_batch_points(ss, ss.filtered_gdf, ss.batch_size)
         IN IF ss.current_point >= Len(batch_points_df)
            THEN [ss EXCEPT !.current_point =
                        IF Len(batch_points_df) > 0
                        THEN Len(batch_points_df) - 1 ELSE 0]
            ELSE ss
    ELSE ss

\* one run of the script from the top, up to the buttons
ScriptRun(ss, up) == ClampPoint(InitialiseView(UploadHandling(ss, up)))

\* what the run displayed about loading
LoadEvent(ss, up) ==
    IF LoadAttempted(ss, up)
    THEN LET loaded == load_data(up)
         IN [message |-> loaded.message, removed |-> loaded.removed]
    ELSE [message |-> "not_attempted", removed |-> None]

\* the interaction, its outcome, what the run displayed about loading, and
\* the S_No parsed from the chosen dropdown entry (0 when there is none)
Event(op, outcome, load) ==
    [op |-> op, outcome |-> outcome, load |-> load.message,
     removed |-> load.removed, s_no |-> 0]

NoLoad == [message |-> "not_attempted", removed |-> None]

\* ----------------------------------------------------------------- actions
Init ==
    /\ session_state = InitialSessionState
    /\ uploaded_files_list_widget = NoUpload
    /\ event = Event("start", "ok", NoLoad)
    /\ validations = 0

\* the user changes the content of the file uploader; the script reruns
Upload(up) ==
    /\ up # uploaded_files_list_widget
    /\ uploaded_files_list_widget' = up
    /\ session_state' = ScriptRun(session_state, up)
    /\ event' = Event("upload",
                      IF LoadEvent(session_state, up).message
                            \in {"loaded", "not_attempted"} THEN "ok" ELSE "error",
                      LoadEvent(session_state, up))
    /\ validations' = IF LoadEvent(session_state, up).message = "loaded"
                      THEN 0 ELSE validations

\* --------------------------------------------------------------- handlers
\* df.loc[label, 'validation'] = status, for a label present in df
SetValidation(df, label, status) ==
    [i \in 1..Len(df) |->
        IF df[i].index = label THEN [df[i] EXCEPT !.validation = status] ELSE df[i]]

\* main.py:419: the label of the row under the cursor
current_global_idx(ss) ==
    ILoc(get_current_batch_points(ss, ss.filtered_gdf, ss.batch_size),
         ss.current_point).index

\* main.py:448-452
prev_batch(ss) ==
    zoom_to_current_point(
        [ss EXCEPT !.current_batch = ss.current_batch - 1, !.current_point = 0])

\* faulty variant: the point index survives the batch change
next_batch_keep_point(ss) ==
    zoom_to_current_point([ss EXCEPT !.current_batch = ss.current_batch + 1])

\* main.py:454-458
next_batch(ss) ==
    zoom_to_current_point(
        [ss EXCEPT !.current_batch = ss.current_batch + 1, !.current_point = 0])

\* main.py:461-464
prev_point(ss) ==
    zoom_to_current_point([ss EXCEPT !.current_point = ss.current_point - 1])

\* main.py:466-469
next_point(ss) ==
    zoom_to_current_point([ss EXCEPT !.current_point = ss.current_point + 1])

\* faulty variants: a boundary test that is off by one
prev_batch_disabled_off_by_one(ss) == ss.current_batch < 0
next_batch_disabled_off_by_one(ss) == ss.current_batch >= total_batches(ss)
prev_point_disabled_off_by_one(ss) == ss.current_point < 0

\* the disabled= arguments of the four navigation buttons
prev_batch_disabled(ss) == ss.current_batch = 0
next_batch_disabled(ss) == ss.current_batch >= total_batches(ss) - 1
prev_point_disabled(ss) == ss.current_point = 0
next_point_disabled(ss) ==
    ss.current_point >=
        Len(get_current_batch_points(ss, ss.filtered_gdf, ss.batch_size)) - 1

\* faulty variant: the status is written to the view only
validate_view_only(ss, status) ==
    [ss EXCEPT
        !.filtered_gdf = Some(SetValidation(Get(ss.filtered_gdf),
                                            current_global_idx(ss), status))]

\* faulty variant: the store is replaced by the updated view
validate_store_from_view(ss, status) ==
    [ss EXCEPT
        !.filtered_gdf = Some(SetValidation(Get(ss.filtered_gdf),
                                            current_global_idx(ss), status)),
        !.gdf = Some(SetValidation(Get(ss.filtered_gdf),
                                   current_global_idx(ss), status))]

\* faulty variant: the status is written to the store only
validate_store_only(ss, status) ==
    [ss EXCEPT
        !.gdf = Some(SetValidation(Get(ss.gdf), current_global_idx(ss), status))]

\* faulty variant: the rows to write are found by S_No, not by label
validate_by_s_no(ss, status) ==
    LET s_no == ILoc(get_current_batch_points(ss, ss.filtered_gdf, ss.batch_size),
                     ss.current_point).S_No
        Written(df) ==
            [i \in 1..Len(df) |->
                IF df[i].S_No = s_no THEN [df[i] EXCEPT !.validation = status]
                ELSE df[i]]
    IN [ss EXCEPT !.filtered_gdf = Some(Written(Get(ss.filtered_gdf))),
                  !.gdf = Some(Written(Get(ss.gdf)))]

\* faulty variant: a row that already has a status keeps it
validate_once(ss, status) ==
    LET label == current_global_idx(ss)
        Written(df) ==
            [i \in 1..Len(df) |->
                IF df[i].index = label /\ df[i].validation = "Not Validated"
                THEN [df[i] EXCEPT !.validation = status] ELSE df[i]]
    IN [ss EXCEPT !.filtered_gdf = Some(Written(Get(ss.filtered_gdf))),
                  !.gdf = Some(Written(Get(ss.gdf)))]

\* main.py:472-482: the Correct and Incorrect buttons
validate(ss, status) ==
    [ss EXCEPT
        !.filtered_gdf = Some(SetValidation(Get(ss.filtered_gdf),
                                            current_global_idx(ss), status)),
        !.gdf = Some(SetValidation(Get(ss.gdf), current_global_idx(ss), status))]

\* main.py:494-496: the rows of the view still to validate
non_validated_points(ss) ==
    SelectEq(Get(ss.filtered_gdf), "validation", "Not Validated")

\* faulty variant: the label is taken for the position
get_loc_is_label(df, label) == label

\* filtered_gdf.index.get_loc(label): 0-based position of a label of the view
get_loc(df, label) == (CHOOSE i \in 1..Len(df) : df[i].index = label) - 1

\* faulty variant: the cursor is reset before the lookup that may fail
on_non_validated_point_select_reset_first(ss, selected_option) ==
    IF selected_option.kind # "point"
    THEN [state |-> ss, error |-> FALSE]
    ELSE
    LET view == Get(ss.filtered_gdf)
        s_no == selected_option.S_No
        matches == SelectEq(view, "S_No", s_no)
        cleared == [ss EXCEPT !.current_batch = 0, !.current_point = 0]
    IN IF matches = <<>>
       THEN [state |-> cleared, error |-> TRUE]
       ELSE
       LET p == (CHOOSE i \in 1..Len(view) : view[i].index = matches[1].index) - 1
       IN [state |-> zoom_to_current_point(
                [ss EXCEPT !.current_batch = p \div ss.batch_size,
                           !.current_point = p % ss.batch_size]),
           error |-> FALSE]

\* main.py:296-313.  selected_option is the text of the chosen dropdown
\* entry: a batch heading, or a point entry naming an S_No.  The result is
\* the session state and whether st.error was called: an S_No no row of the
\* view carries makes .index[0] raise before anything is assigned.
on_non_validated_point_select(ss, selected_option) ==
    IF selected_option.kind # "point"
    THEN [state |-> ss, error |-> FALSE]
    ELSE
    LET view == Get(ss.filtered_gdf)
        s_no == selected_option.S_No
        matches == SelectEq(view, "S_No", s_no)
    IN IF matches = <<>>
       THEN [state |-> ss, error |-> TRUE]
       ELSE
       LET global_idx == matches[1].index
           batch_size == ss.batch_size
       IN [state |-> zoom_to_current_point(
                [ss EXCEPT
                    !.current_batch = get_loc(view, global_idx) \div batch_size,
                    !.current_point = get_loc(view, global_idx) % batch_size]),
           error |-> FALSE]

\* main.py:357-358: the entries of the crop filter
FilterOptions(ss) ==
    {"All"} \cup {Get(ss.gdf)[i].crop_name : i \in 1..Len(Get(ss.gdf))}

\* main.py:498-510: the entries of the non-validated dropdown, a heading
\* per batch (batches numbered from 1) followed by its points
Heading(batch, points) ==
    [kind |-> "batch", batch |-> batch, points |-> points, S_No |-> 0, crop_name |-> ""]
PointEntry(row) ==
    [kind |-> "point", batch |-> 0, points |-> 0,
     S_No |-> row.S_No, crop_name |-> row.crop_name]

\* faulty variant: the batch is computed from the label, not the position
batch_num_by_label(ss, label) == label \div ss.batch_size + 1

batch_num(ss, label) == get_loc(Get(ss.filtered_gdf), label) \div ss.batch_size + 1

non_validated_batches(ss, batch) ==
    LET points == non_validated_points(ss)
    IN Pick(points,
            {i \in 1..Len(points) : batch_num(ss, points[i].index) = batch}, 1)

RECURSIVE OptionsFrom(_, _)
OptionsFrom(ss, batch) ==
    IF batch > Ceil(Len(Get(ss.filtered_gdf)), ss.batch_size) THEN <<>>
    ELSE LET points == non_validated_batches(ss, batch)
         IN (IF points = <<>> THEN <<>>
             ELSE <<Heading(batch, Len(points))>>
                    \o [i \in 1..Len(points) |-> PointEntry(points[i])])
            \o OptionsFrom(ss, batch + 1)

non_validated_options(ss) == OptionsFrom(ss, 1)

\* Values of the dropdown handed to its callback.  The callback parses the
\* text it is given, so besides the entries on display the model hands it
\* point entries of rows that are validated or filtered out of the view,
\* and one S_No no row carries.
AbsentSNo == 999
DropdownValues(ss) ==
    {non_validated_options(ss)[i] : i \in 1..Len(non_validated_options(ss))}
        \cup {PointEntry(Get(ss.gdf)[i]) : i \in 1..Len(Get(ss.gdf))}
        \cup {PointEntry([S_No |-> AbsentSNo, crop_name |-> "Rice"])}

\* a click on one of the buttons of the main area: the run that sees the
\* click executes the handler and st.rerun() starts the next run
ButtonClick(op, disabled, after) ==
    /\ MainAreaShown(session_state)
    /\ uploaded_files_list_widget' = uploaded_files_list_widget
    /\ IF disabled
       THEN /\ session_state' = session_state
            /\ event' = Event(op, "disabled", NoLoad)
       ELSE /\ session_state' = ScriptRun(after, uploaded_files_list_widget)
            /\ event' = Event(op, "ok", NoLoad)

PrevBatch ==
    /\ ButtonClick("prev_batch", prev_batch_disabled(session_state),
                   prev_batch(session_state))
    /\ UNCHANGED validations

NextBatch ==
    /\ ButtonClick("next_batch", next_batch_disabled(session_state),
                   next_batch(session_state))
    /\ UNCHANGED validations

PrevPoint ==
    /\ ButtonClick("prev_point", prev_point_disabled(session_state),
                   prev_point(session_state))
    /\ UNCHANGED validations

NextPoint ==
    /\ ButtonClick("next_point", next_point_disabled(session_state),
                   next_point(session_state))
    /\ UNCHANGED validations

Validate(status) ==
    /\ validations < MaxValidations
    /\ ButtonClick(status, FALSE, validate(session_state, status))
    /\ validations' = validations + 1

\* the crop filter is changed: the callback runs, then the script
FilterChange(crop) ==
    /\ session_state.gdf # None
    /\ crop \in FilterOptions(session_state)
    /\ crop # session_state.selected_crop
    /\ session_state' =
            ScriptRun(update_filtered_data_and_reset_nav(
                        [session_state EXCEPT !.selected_crop = crop]),
                      uploaded_files_list_widget)
    /\ event' = Event("filter", "ok", NoLoad)
    /\ UNCHANGED <<uploaded_files_list_widget, validations>>

\* an entry of the non-validated dropdown is chosen: the callback runs,
\* then the script
JumpToPoint(selected_option) ==
    /\ MainAreaShown(session_state)
    /\ non_validated_points(session_state) # <<>>
    /\ LET done == on_non_validated_point_select(session_state, selected_option)
       IN /\ session_state' = ScriptRun(done.state, uploaded_files_list_widget)
          /\ event' = [Event("jump",
                              IF done.error THEN "error"
                              ELSE IF selected_option.kind = "point" THEN "ok"
                              ELSE "heading",
                              NoLoad)
                        EXCEPT !.s_no = selected_option.S_No]
    /\ UNCHANGED <<uploaded_files_list_widget, validations>>

JumpInputs ==
    IF session_state.gdf = None THEN {} ELSE DropdownValues(session_state)

CropNames == {"All", "Rice", "Wheat", "Maize", "Unknown Crop"}

Next ==
    \/ \E up \in Uploads : Upload(up)
    \/ PrevBatch
    \/ NextBatch
    \/ PrevPoint
    \/ NextPoint
    \/ \E status \in {"Correct", "Incorrect"} : Validate(status)
    \/ \E crop \in CropNames : FilterChange(crop)
    \/ \E selected_option \in JumpInputs : JumpToPoint(selected_option)

Spec == Init /\ [][Next]_vars

\* ------------------------------------------------------------ properties
Statuses == {"Correct", "Incorrect"}

\* the view, its current batch and the cursor of a session state
ViewOf(ss) == IF ss.filtered_gdf = None THEN <<>> ELSE Get(ss.filtered_gdf)
BatchOf(ss) == get_current_batch_points(ss, ss.filtered_gdf, ss.batch_size)
CursorOf(ss) == <<ss.current_batch, ss.current_point>>
FocusOf(ss) == <<ss.map_center, ss.map_zoom_level>>

\* TotalBatches of the specification: ceil(len(view) / batch_size), 0 on an
\* empty view
TotalBatches(ss) == Ceil(Len(ViewOf(ss)), ss.batch_size)

\* the rows of df carrying the label
RowsAt(df, label) == {i \in 1..Len(df) : df[i].index = label}

\* number of point entries of a dropdown
PointEntries(options) ==
    Cardinality({i \in 1..Len(options) : options[i].kind = "point"})

\* C1: in every reachable state the cursor is inside the view: batch in
\* [0, TotalBatches) and point in [0, len(current batch)); on an empty (or
\* not yet built) view it is (0, 0).
C1_CursorInBounds ==
    IF ViewOf(session_state) = <<>>
    THEN CursorOf(session_state) = <<0, 0>>
    ELSE /\ 0 <= session_state.current_batch
         /\ session_state.current_batch < TotalBatches(session_state)
         /\ 0 <= session_state.current_point
         /\ session_state.current_point < Len(BatchOf(session_state))

\* a validation click made on the only point of the second batch
C1_Witness ==
    /\ event.op \in Statuses
    /\ session_state.current_batch = 1
    /\ TotalBatches(session_state) = 2
    /\ C1_CursorInBounds

\* C2: a Correct/Incorrect click on the record under the cursor leaves that
\* record with the clicked status in the store and in the view, and the
\* record is not among the non-validated points the index is built from.
C2_ValidationVisible ==
    [][\A status \in Statuses :
         (event'.op = status /\ Validate(status)) =>
            LET label == current_global_idx(session_state)
                store == Get(session_state'.gdf)
                view == Get(session_state'.filtered_gdf)
            IN /\ RowsAt(store, label) # {}
               /\ \A i \in RowsAt(store, label) : store[i].validation = status
               /\ RowsAt(view, label) # {}
               /\ \A i \in RowsAt(view, label) : view[i].validation = status
               /\ RowsAt(non_validated_points(session_state'), label) = {}
               /\ PointEntries(non_validated_options(session_state'))
                    = Len(non_validated_points(session_state'))]_vars

\* "Incorrect" was clicked in a filtered view, on a row whose label differs
\* from its position in the view
C2_Witness ==
    /\ event.op = "Incorrect"
    /\ session_state.selected_crop = "Wheat"
    /\ session_state.current_point >= 1
    /\ ILoc(BatchOf(session_state), session_state.current_point).validation = "Incorrect"
    /\ \E i \in 1..Len(Get(session_state.gdf)) :
            /\ Get(session_state.gdf)[i].index = current_global_idx(session_state)
            /\ Get(session_state.gdf)[i].validation = "Incorrect"

\* C3 (as claimed): a Correct/Incorrect click on a point that is not the
\* last of its batch moves the cursor to (same batch, point + 1).
C3_ValidateAdvances ==
    [][\A status \in Statuses :
         (/\ event'.op = status
          /\ Validate(status)
          /\ session_state.current_point < Len(BatchOf(session_state)) - 1)
         => CursorOf(session_state') =
                <<session_state.current_batch, session_state.current_point + 1>>]_vars

\* C4 (as claimed): a rejected upload arriving while a store is installed
\* leaves the whole session state as it was.
C4_FailedLoadKeepsState ==
    [][\A up \in BadUploads :
         (Upload(up) /\ session_state.gdf # None)
         => session_state' = session_state]_vars

\* 0-based position of the first row of the view carrying the S_No
FirstPosition(view, s_no) ==
    (CHOOSE i \in 1..Len(view) :
        /\ view[i].S_No = s_no
        /\ \A j \in 1..(i - 1) : view[j].S_No # s_no) - 1

InView(view, s_no) == \E i \in 1..Len(view) : view[i].S_No = s_no

\* C5: choosing the entry of an S_No that is in the view puts the cursor on
\* (p div batch_size, p mod batch_size), p the (first) view position
\* carrying that S_No, and the record then under the cursor has that S_No.
C5_JumpToPosition ==
    [][(/\ event'.op = "jump"
        /\ event'.s_no # 0
        /\ InView(ViewOf(session_state), event'.s_no))
       => LET p == FirstPosition(ViewOf(session_state), event'.s_no)
          IN /\ event'.outcome = "ok"
             /\ CursorOf(session_state') =
                    <<p \div session_state.batch_size, p % session_state.batch_size>>
             /\ ILoc(BatchOf(session_state'), session_state'.current_point).S_No
                    = event'.s_no]_vars

\* a jump inside the Wheat view, where labels and positions differ
C5_Witness ==
    /\ event.op = "jump"
    /\ event.outcome = "ok"
    /\ event.s_no = 7
    /\ session_state.selected_crop = "Wheat"
    /\ session_state.current_point = 5
    /\ current_global_idx(session_state) = 6

\* C6: choosing the entry of an S_No that no row of the view carries is
\* reported as an error and changes neither the cursor nor the focus.
C6_JumpAbsentKeepsCursor ==
    [][(/\ event'.op = "jump"
        /\ event'.s_no # 0
        /\ ~InView(ViewOf(session_state), event'.s_no))
       => /\ event'.outcome = "error"
          /\ CursorOf(session_state') = CursorOf(session_state)
          /\ FocusOf(session_state') = FocusOf(session_state)]_vars

\* a failed jump made from point 3 of the Wheat view
C6_Witness ==
    /\ event.op = "jump"
    /\ event.outcome = "error"
    /\ event.s_no = 2
    /\ session_state.selected_crop = "Wheat"
    /\ session_state.current_point = 3

\* view holds exactly the rows of store of the category (all rows for
\* "All"), in store order
IsFilterOf(view, store, crop) ==
    LET K == {i \in 1..Len(store) : crop = "All" \/ store[i].crop_name = crop}
    IN /\ Len(view) = Cardinality(K)
       /\ \A i \in K : view[Cardinality({j \in K : j <= i})] = store[i]

\* C7: right after every rebuild of the view (filter change or successful
\* load) the cursor is (0, 0) and the view is the filter of the store; and
\* from every reachable state, applying a filter a second time gives the
\* view of the first application, with the cursor at (0, 0) both times.
C7_FilterIdempotent ==
    /\ (event.op = "filter" \/ event.load = "loaded")
        => /\ CursorOf(session_state) = <<0, 0>>
           /\ IsFilterOf(ViewOf(session_state), Get(session_state.gdf),
                         session_state.selected_crop)
    /\ session_state.gdf # None
        => \A crop \in FilterOptions(session_state) :
            LET once == update_filtered_data_and_reset_nav(
                            [session_state EXCEPT !.selected_crop = crop])
                twice == update_filtered_data_and_reset_nav(
                            [once EXCEPT !.selected_crop = crop])
            IN /\ IsFilterOf(ViewOf(once), Get(session_state.gdf), crop)
               /\ ViewOf(twice) = ViewOf(once)
               /\ CursorOf(once) = <<0, 0>>
               /\ CursorOf(twice) = <<0, 0>>

\* the filter was changed to Rice after a validation click
C7_Witness ==
    /\ event.op = "filter"
    /\ session_state.selected_crop = "Rice"
    /\ validations = 1
    /\ Len(ViewOf(session_state)) < Len(Get(session_state.gdf))

\* C8: Next Point on the last point of a batch and Prev Point on point 0
\* leave the cursor where it is, and neither button changes current_batch.
C8_PointNavigationNoWrap ==
    [][/\ NextPoint =>
            /\ session_state'.current_batch = session_state.current_batch
            /\ session_state.current_point = Len(BatchOf(session_state)) - 1
                => session_state'.current_point = session_state.current_point
       /\ PrevPoint =>
            /\ session_state'.current_batch = session_state.current_batch
            /\ session_state.current_point = 0
                => session_state'.current_point = 0]_vars

\* Next Point was clicked on the last point of the last of two batches
C8_Witness ==
    /\ event.op = "next_point"
    /\ event.outcome = "disabled"
    /\ session_state.current_batch = 1
    /\ TotalBatches(session_state) = 2
    /\ session_state.current_point = Len(BatchOf(session_state)) - 1

\* C9: Next Batch / Prev Batch move current_batch by exactly one and set
\* current_point to 0, except at the last / first batch, where the cursor
\* does not change; current_batch stays inside [0, TotalBatches).
C9_BatchNavigation ==
    [][/\ NextBatch =>
            /\ CursorOf(session_state') =
                IF session_state.current_batch < TotalBatches(session_state) - 1
                THEN <<session_state.current_batch + 1, 0>>
                ELSE CursorOf(session_state)
            /\ session_state'.current_batch < TotalBatches(session_state')
       /\ PrevBatch =>
            /\ CursorOf(session_state') =
                IF session_state.current_batch > 0
                THEN <<session_state.current_batch - 1, 0>>
                ELSE CursorOf(session_state)
            /\ session_state'.current_batch >= 0]_vars

\* Next Batch has moved the cursor to the start of the second batch
C9_Witness ==
    /\ event.op = "next_batch"
    /\ event.outcome = "ok"
    /\ CursorOf(session_state) = <<1, 0>>

Coordinates(row) == <<row.latitude, row.longitude>>

\* C10: right after a successful load no two rows of the store share their
\* coordinates, every store row is the first uploaded row with its
\* coordinates (and the rows keep the upload order), every uploaded
\* coordinate pair is in the store, and the number of removed duplicates
\* that is reported is the uploaded length minus the store length.
C10_Deduplicated ==
    (event.op = "upload" /\ event.load = "loaded") =>
        LET raw == uploaded_files_list_widget.table.rows
            store == Get(session_state.gdf)
        IN /\ \A i, j \in 1..Len(store) :
                i # j => Coordinates(store[i]) # Coordinates(store[j])
           /\ \A i \in 1..Len(store) :
                /\ Coordinates(raw[store[i].index + 1]) = Coordinates(store[i])
                /\ \A j \in 1..store[i].index :
                        Coordinates(raw[j]) # Coordinates(store[i])
           /\ \A i, j \in 1..Len(store) : i < j => store[i].index < store[j].index
           /\ \A j \in 1..Len(raw) :
                \E i \in 1..Len(store) : Coordinates(store[i]) = Coordinates(raw[j])
           /\ event.removed =
                IF Len(raw) > Len(store) THEN Some(Len(raw) - Len(store)) ELSE None

\* a table with one repeated coordinate pair was loaded
C10_Witness ==
    /\ event.op = "upload"
    /\ event.load = "loaded"
    /\ event.removed = Some(1)
    /\ Len(Get(session_state.gdf)) = Len(uploaded_files_list_widget.table.rows) - 1

\* the S_No values of a frame are pairwise different
UniqueSNo(df) == \A i, j \in 1..Len(df) : i # j => df[i].S_No # df[j].S_No

\* C11 (as claimed): after a successful load the S_No values of the store
\* are pairwise different, also when the uploaded table brought its own
\* S_No column, and no later interaction changes the S_No of a store row.
C11_SerialIdsUnique ==
    [][/\ event'.load = "loaded" => UniqueSNo(Get(session_state'.gdf))
       /\ (event'.load # "loaded" /\ session_state.gdf # None
                                  /\ session_state'.gdf # None)
            => /\ Len(Get(session_state'.gdf)) = Len(Get(session_state.gdf))
               /\ \A i \in 1..Len(Get(session_state.gdf)) :
                    /\ Get(session_state'.gdf)[i].index = Get(session_state.gdf)[i].index
                    /\ Get(session_state'.gdf)[i].S_No = Get(session_state.gdf)[i].S_No]_vars

ValidationStatuses == {"Not Validated", "Correct", "Incorrect"}

\* C12 (as claimed): in every reachable state every row of the store and
\* of the view has a validation value among Not Validated, Correct and
\* Incorrect.
C12_ValidationDomain ==
    /\ session_state.gdf # None
        => \A i \in 1..Len(Get(session_state.gdf)) :
                Get(session_state.gdf)[i].validation \in ValidationStatuses
    /\ \A i \in 1..Len(ViewOf(session_state)) :
            ViewOf(session_state)[i].validation \in ValidationStatuses

\* new has the rows of old, in the same order, with the same label, S_No,
\* crop_name and coordinates
SameRecords(old, new) ==
    /\ Len(new) = Len(old)
    /\ \A i \in 1..Len(old) :
        /\ new[i].index = old[i].index
        /\ new[i].S_No = old[i].S_No
        /\ new[i].crop_name = old[i].crop_name
        /\ Coordinates(new[i]) = Coordinates(old[i])

NavigationOps ==
    {"prev_batch", "next_batch", "prev_point", "next_point", "jump", "filter"}

\* C13: a navigation, jump or filter interaction leaves the store exactly
\* as it was; a Correct/Incorrect click keeps the store's length, row
\* order, labels, S_No, crop_name and coordinates, so that validation is
\* the only store field it can change.
C13_StoreFrame ==
    [][/\ event'.op \in NavigationOps
            => session_state'.gdf = session_state.gdf
       /\ event'.op \in Statuses
            => /\ session_state'.gdf # None
               /\ SameRecords(Get(session_state.gdf), Get(session_state'.gdf))]_vars

\* Correct was clicked in a filtered view: the store keeps the rows the
\* view does not show, and the clicked row has the new status in the store
C13_Witness ==
    /\ event.op = "Correct"
    /\ session_state.selected_crop = "Rice"
    /\ Len(ViewOf(session_state)) < Len(Get(session_state.gdf))
    /\ \E i \in RowsAt(Get(session_state.gdf), current_global_idx(session_state)) :
            Get(session_state.gdf)[i].validation = "Correct"

\* ------------------------------------------------------- bulk validation
\* src/main.py has no bulk validation; the operation below is the
\* ValidateBulk of the specification (section 4.5): the same write as a
\* single validation, applied to every serial id of a set, with NotFound
\* for an id no store row carries, and the number of ids validated as the
\* reported count.
MaxBulk == 3           \* serial ids of the largest bulk selection

\* the status written to every row of df whose S_No is in ids
SetValidationByIds(df, ids, status) ==
    [i \in 1..Len(df) |->
        IF df[i].S_No \in ids THEN [df[i] EXCEPT !.validation = status] ELSE df[i]]

\* faulty variant: ids the view does not show are skipped
validate_bulk_view_only(ss, ids, status) ==
    LET shown == {id \in ids : InView(Get(ss.filtered_gdf), id)}
    IN IF \E id \in ids : ~InView(Get(ss.gdf), id)
       THEN [state |-> ss, count |-> 0, error |-> TRUE]
       ELSE [state |-> [ss EXCEPT
                            !.gdf = Some(SetValidationByIds(Get(ss.gdf), shown, status)),
                            !.filtered_gdf =
                                Some(SetValidationByIds(Get(ss.filtered_gdf), shown, status))],
             count |-> Cardinality(shown),
             error |-> FALSE]

validate_bulk(ss, ids, status) ==
    IF \E id \in ids : ~InView(Get(ss.gdf), id)
    THEN [state |-> ss, count |-> 0, error |-> TRUE]
    ELSE [state |-> [ss EXCEPT
                        !.gdf = Some(SetValidationByIds(Get(ss.gdf), ids, status)),
                        !.filtered_gdf =
                            Some(SetValidationByIds(Get(ss.filtered_gdf), ids, status))],
          count |-> Cardinality({id \in ids : InView(Get(ss.gdf), id)}),
          error |-> FALSE]

\* id sets handed to the operation: the serial ids of up to MaxBulk
\* neighbouring store rows, and one set holding an id no row carries
BulkIds(ss) ==
    {{Get(ss.gdf)[i].S_No : i \in first..Min(first + n - 1, Len(Get(ss.gdf)))} :
        first \in 1..Len(Get(ss.gdf)), n \in 1..MaxBulk}
    \cup {{AbsentSNo}}

BulkEvent(ids, status, done) ==
    [op |-> "bulk", outcome |-> IF done.error THEN "error" ELSE "ok",
     load |-> "not_attempted", removed |-> None, s_no |-> 0,
     ids |-> ids, status |-> status, count |-> done.count]

ValidateBulk(ids, status) ==
    /\ validations < MaxValidations
    /\ session_state.gdf # None
    /\ session_state.filtered_gdf # None
    /\ ids \in BulkIds(session_state)
    /\ LET done == validate_bulk(session_state, ids, status)
       IN /\ session_state' = ScriptRun(done.state, uploaded_files_list_widget)
          /\ event' = BulkEvent(ids, status, done)
    /\ validations' = validations + 1
    /\ UNCHANGED uploaded_files_list_widget

BulkInputs ==
    IF session_state.gdf = None THEN {} ELSE BulkIds(session_state)

\* loading, filtering and bulk validation
NextBulk ==
    \/ \E up \in Uploads : Upload(up)
    \/ \E crop \in CropNames : FilterChange(crop)
    \/ \E ids \in BulkInputs, status \in Statuses : ValidateBulk(ids, status)

SpecBulk == Init /\ [][NextBulk]_vars

\* C14: a bulk validation of a set of serial ids of the store leaves every
\* store row carrying one of the ids with the given status, also the rows
\* the view does not show, and the count it reports is the number of ids.
C14_BulkUpdatesAll ==
    [][(event'.op = "bulk" /\ event'.outcome = "ok")
        => /\ \A id \in event'.ids :
                /\ InView(Get(session_state'.gdf), id)
                /\ \A i \in 1..Len(Get(session_state'.gdf)) :
                        Get(session_state'.gdf)[i].S_No = id
                            => Get(session_state'.gdf)[i].validation = event'.status
                /\ \A i \in 1..Len(ViewOf(session_state')) :
                        ViewOf(session_state')[i].S_No = id
                            => ViewOf(session_state')[i].validation = event'.status
           /\ event'.count = Cardinality(event'.ids)]_vars

\* three ids were validated in bulk while the Rice view showed one of them
C14_Witness ==
    /\ event.op = "bulk"
    /\ event.outcome = "ok"
    /\ event.count = 3
    /\ session_state.selected_crop = "Rice"
    /\ \E id \in event.ids :
            /\ ~InView(ViewOf(session_state), id)
            /\ \E i \in 1..Len(Get(session_state.gdf)) :
                    /\ Get(session_state.gdf)[i].S_No = id
                    /\ Get(session_state.gdf)[i].validation = event.status
    /\ \E id \in event.ids : InView(ViewOf(session_state), id)

\* the four kinds of upload the loader must reject, on the extensions and
\* the columns of an upload
HasShpComponent(up) == \E f \in up.files : f.ext \in {".shp", ".shx", ".dbf"}
HasCsv(up) == \E f \in up.files : f.ext = ".csv"
MixesShpAndCsv(up) == HasShpComponent(up) /\ HasCsv(up)
IncompleteShp(up) ==
    /\ HasShpComponent(up)
    /\ \E e \in {".shp", ".shx", ".dbf"} : \A f \in up.files : f.ext # e
CsvLacksCoordinates(up) ==
    /\ HasCsv(up)
    /\ ~HasShpComponent(up)
    /\ ~({"latitude", "longitude"} \subseteq up.table.columns)
NoSupportedFile(up) ==
    /\ up.files # {}
    /\ ~HasShpComponent(up)
    /\ ~HasCsv(up)
Rejected(up) ==
    \/ MixesShpAndCsv(up)
    \/ IncompleteShp(up)
    \/ CsvLacksCoordinates(up)
    \/ NoSupportedFile(up)

\* every non-empty set of file extensions, with a table that has both, one
\* or none of the coordinate columns (the points read from a .shp always
\* have coordinates)
ExtensionSets == SUBSET {".shp", ".shx", ".dbf", ".prj", ".csv"} \ {{}}
ColumnSets == {{"latitude", "longitude"}, {"latitude"}, {"longitude", "crop_name"},
               {"crop_name"}}
AnyUpload(extensions, columns) ==
    [files |-> {File(<<"any", 2>>, e) : e \in extensions},
     table |-> TableWith("crops",
                         IF ".shp" \in extensions
                         THEN columns \cup {"latitude", "longitude"} ELSE columns,
                         2)]

\* C15: an upload that mixes shapefile components with a CSV, lacks one of
\* .shp/.shx/.dbf, is a CSV without a latitude or longitude column, or
\* holds no supported file ends in a load failure that is displayed, and
\* the session holds no store after it; load_data, which depends on the
\* upload alone, is tried at the first upload of a session on every
\* extension set and returns no frame for any upload of these four kinds.
C15_RejectedUploads ==
    [][event'.op = "upload" =>
        /\ Rejected(uploaded_files_list_widget')
            => /\ event'.outcome = "error"
               /\ event'.load \in {"warning_shapefile_and_csv",
                                   "warning_missing_shapefile_components",
                                   "error_csv_missing_latitude_longitude",
                                   "error_no_supported_file"}
               /\ session_state'.gdf = None
        /\ MixesShpAndCsv(uploaded_files_list_widget')
            => event'.load = "warning_shapefile_and_csv"
        /\ event.op = "start"
            => \A extensions \in ExtensionSets, columns \in ColumnSets :
                Rejected(AnyUpload(extensions, columns))
                    => load_data(AnyUpload(extensions, columns)).gdf = None]_vars

\* a shapefile without its .dbf was uploaded after a table had been loaded
C15_Witness ==
    /\ event.op = "upload"
    /\ event.outcome = "error"
    /\ event.load = "warning_missing_shapefile_components"
    /\ IncompleteShp(uploaded_files_list_widget)
    /\ session_state.gdf = None
    /\ session_state.filtered_gdf # None

\* ------------------------------------------------------------------ export
\* main.py:382-383: the entries of the export selectbox
download_options(ss) ==
    {"All"} \cup {Get(ss.gdf)[i].crop_name : i \in 1..Len(Get(ss.gdf))}

\* main.py:391-396
filtered_download_gdf(ss, selected_crop_for_download) ==
    IF selected_crop_for_download = "All" THEN Get(ss.gdf)
    ELSE SelectEq(Get(ss.gdf), "crop_name", selected_crop_for_download)

\* the columns of the loaded frame: the geometry column, the columns
\* load_data guarantees and, for a frame built from a CSV, its latitude and
\* longitude columns (main.py:179-218)
FrameColumns(ss) ==
    {"geometry", "crop_name", "S_No", "validation"}
        \cup (IF \E f \in ss.last_uploaded_files_names : f.ext = ".csv"
              THEN {"latitude", "longitude"} ELSE {})

\* a cell as to_csv writes it; a point geometry is written as its WKT text
CsvCell(row, column) ==
    IF column = "geometry" THEN <<"POINT", row.longitude, row.latitude>>
    ELSE row[column]

\* df.to_csv(index=False): every column of the frame, the index left out
to_csv(df, columns) ==
    [columns |-> columns,
     rows |-> [i \in 1..Len(df) |-> [c \in columns |-> CsvCell(df[i], c)]]]

\* main.py:398: the data behind the download button
filtered_csv_data(ss, selected_crop_for_download) ==
    to_csv(filtered_download_gdf(ss, selected_crop_for_download), FrameColumns(ss))

\* main.py:370, 384-405: an entry of the export selectbox is chosen and the
\* download button clicked; the browser receives the data of the run that
\* rendered the button, and the script reruns
Download(selected_crop_for_download) ==
    /\ session_state.gdf # None
    /\ Get(session_state.gdf) # <<>>
    /\ selected_crop_for_download \in download_options(session_state)
    /\ session_state' = ScriptRun(session_state, uploaded_files_list_widget)
    /\ event' = [op |-> "download", outcome |-> "ok",
                 load |-> "not_attempted", removed |-> None, s_no |-> 0,
                 crop |-> selected_crop_for_download,
                 csv |-> filtered_csv_data(session_state, selected_crop_for_download)]
    /\ UNCHANGED <<uploaded_files_list_widget, validations>>

\* loading, filtering, validating along a batch, and exporting
NextExport ==
    \/ \E up \in Uploads : Upload(up)
    \/ NextPoint
    \/ \E status \in Statuses : Validate(status)
    \/ \E crop \in CropNames : FilterChange(crop)
    \/ \E crop \in CropNames : Download(crop)

SpecExport == Init /\ [][NextExport]_vars

\* C16 (as claimed): the exported table holds exactly the store rows of the
\* chosen category (all rows for "All"), in store order, each with its
\* current validation value, and its columns are the columns of the store
\* without the geometry column.
C16_ExportRows ==
    [][event'.op = "download" =>
        LET store == Get(session_state.gdf)
            K == {i \in 1..Len(store) :
                    event'.crop = "All" \/ store[i].crop_name = event'.crop}
            csv == event'.csv
        IN /\ Len(csv.rows) = Cardinality(K)
           /\ \A i \in K :
                LET exported == csv.rows[Cardinality({j \in K : j <= i})]
                IN /\ exported.S_No = store[i].S_No
                   /\ exported.crop_name = store[i].crop_name
                   /\ exported.validation = store[i].validation
           /\ csv.columns = FrameColumns(session_state) \ {"geometry"}]_vars

\* sub is a subsequence of df: its rows are rows of df, in the order of df
IsSubsequence(sub, df) ==
    /\ \A i \in 1..Len(sub) : \E j \in 1..Len(df) : df[j] = sub[i]
    /\ \A i, j \in 1..Len(sub) : i < j => sub[i].index < sub[j].index

\* the view update_filtered_data_and_reset_nav builds for a category
RebuiltFor(ss, crop) ==
    update_filtered_data_and_reset_nav([ss EXCEPT !.selected_crop = crop])

\* C17: a filter change to "All" makes the view the store itself, row for
\* row; a change to a category makes it the store rows of that category
\* and no others, in store order; the store is what it was before; and the
\* rebuild gives such a view for every category name, those no store row
\* carries included.
C17_RebuildView ==
    [][event'.op = "filter" =>
        /\ event'.outcome = "ok"
        /\ session_state'.gdf = session_state.gdf
        /\ session_state'.filtered_gdf # None
        /\ session_state'.selected_crop = "All"
            => ViewOf(session_state') = Get(session_state.gdf)
        /\ session_state'.selected_crop # "All"
            => /\ IsSubsequence(ViewOf(session_state'), Get(session_state.gdf))
               /\ \A i \in 1..Len(ViewOf(session_state')) :
                    ViewOf(session_state')[i].crop_name = session_state'.selected_crop
               /\ \A j \in 1..Len(Get(session_state.gdf)) :
                    Get(session_state.gdf)[j].crop_name = session_state'.selected_crop
                        => \E i \in 1..Len(ViewOf(session_state')) :
                                ViewOf(session_state')[i] = Get(session_state.gdf)[j]
        /\ \A crop \in CropNames :
            /\ RebuiltFor(session_state, crop).gdf = session_state.gdf
            /\ RebuiltFor(session_state, crop).filtered_gdf # None
            /\ IsFilterOf(ViewOf(RebuiltFor(session_state, crop)),
                          Get(session_state.gdf), crop)]_vars

\* the view was rebuilt for Wheat: all rows of the store but one, the
\* second of them with label 2
C17_Witness ==
    /\ event.op = "filter"
    /\ session_state.selected_crop = "Wheat"
    /\ Len(ViewOf(session_state)) = Len(Get(session_state.gdf)) - 1
    /\ Len(ViewOf(session_state)) >= 3
    /\ ViewOf(session_state)[2].index = 2

\* batch number b of the view of ss under a batch size, as
\* get_current_batch_points returns it with current_batch = b
BatchAt(ss, b, batch_size) ==
    get_current_batch_points([ss EXCEPT !.current_batch = b], ss.filtered_gdf,
                             batch_size)

\* batches b, b + 1, ..., n - 1 one after the other
RECURSIVE BatchesFrom(_, _, _, _)
BatchesFrom(ss, b, n, batch_size) ==
    IF b >= n THEN <<>>
    ELSE BatchAt(ss, b, batch_size) \o BatchesFrom(ss, b + 1, n, batch_size)

BatchSizes(ss) == {ss.batch_size} \cup 1..MaxBatchSize

\* C18: for the view of every reachable state and every batch size, with
\* n = ceil(len(view) / batch_size): n is 0 on an empty view; batch b < n is
\* the rows b*batch_size .. b*batch_size + batch_size - 1 of the view;
\* every batch before the last has batch_size rows and the last has 1 to
\* batch_size; batches from n on are empty; batches 0..n-1 in order make up
\* the view; and where the app computes total_batches it is n.
C18_BatchesPartitionView ==
    LET view == ViewOf(session_state)
    IN /\ MainAreaShown(session_state)
            => total_batches(session_state) = TotalBatches(session_state)
       /\ \A batch_size \in BatchSizes(session_state) :
            LET n == Ceil(Len(view), batch_size)
            IN /\ view = <<>> => n = 0
               /\ \A b \in 0..(n - 1) :
                    /\ BatchAt(session_state, b, batch_size) =
                        SubSeq(view, b * batch_size + 1,
                               Min(b * batch_size + batch_size, Len(view)))
                    /\ b < n - 1
                        => Len(BatchAt(session_state, b, batch_size)) = batch_size
                    /\ b = n - 1
                        => /\ Len(BatchAt(session_state, b, batch_size)) >= 1
                           /\ Len(BatchAt(session_state, b, batch_size)) <= batch_size
               /\ BatchAt(session_state, n, batch_size) = <<>>
               /\ BatchesFrom(session_state, 0, n, batch_size) = view

\* the cursor is in the second, one-row batch of a view that fills the
\* first batch; under batch size MaxBatchSize the same view has a last
\* batch that is neither full nor a single row
C18_Witness ==
    /\ MainAreaShown(session_state)
    /\ total_batches(session_state) = 2
    /\ session_state.current_batch = 1
    /\ Len(BatchOf(session_state)) = Len(ViewOf(session_state)) - session_state.batch_size
    /\ Len(BatchAt(session_state, 0, session_state.batch_size)) = session_state.batch_size
    /\ Len(ViewOf(session_state)) % MaxBatchSize > 1

\* the focus of ss is the one computed from the row under its cursor
FocusAtCursor(ss) ==
    /\ BatchOf(ss) # <<>>
    /\ ss.current_point < Len(BatchOf(ss))
    /\ FocusOf(ss) = <<BufferCentre(ILoc(BatchOf(ss), ss.current_point)), 18>>

CursorOps ==
    {"next_point", "prev_point", "next_batch", "prev_batch", "jump", "filter"}

\* C19: in every reachable state with a non-empty view the map centre and
\* zoom are those computed from the row under the cursor; in particular
\* this is so right after Next/Prev Point, Next/Prev Batch, a jump, a
\* filter change and a successful load.
C19_FocusTracksCursor ==
    /\ ViewOf(session_state) # <<>> => FocusAtCursor(session_state)
    /\ (/\ event.op \in CursorOps \/ event.load = "loaded"
        /\ ViewOf(session_state) # <<>>)
        => /\ session_state.map_zoom_level = 18
           /\ session_state.map_center.kind = "buffer_centre"
           /\ Coordinates(session_state.map_center) =
                Coordinates(ILoc(BatchOf(session_state), session_state.current_point))

\* Next Point has moved the cursor to the third row of a batch and the map
\* is centred on that row
C19_Witness ==
    /\ event.op = "next_point"
    /\ event.outcome = "ok"
    /\ session_state.current_point = 2
    /\ FocusAtCursor(session_state)
    /\ Coordinates(session_state.map_center) # Coordinates(BatchOf(session_state)[1])

\* ss with its cursor moved to batch number b
AtBatch(ss, b) == [ss EXCEPT !.current_batch = b]

\* the uploads whose table has no rows
EmptyUploads == {up \in GoodUploads : up.table.rows = <<>>}

\* C20: where the current batch is empty the focus computation changes
\* neither map centre nor zoom.  From every reachable state:
\* zoom_to_current_point with the cursor on a batch past the last one, or
\* on an empty view; the rebuild of the view for a category that leaves it
\* empty; and the script run that loads a table without rows.
C20_EmptyBatchKeepsFocus ==
    /\ session_state.filtered_gdf # None
        => \A b \in {TotalBatches(session_state), TotalBatches(session_state) + 1} :
            /\ BatchOf(AtBatch(session_state, b)) = <<>>
            /\ FocusOf(zoom_to_current_point(AtBatch(session_state, b)))
                    = FocusOf(session_state)
    /\ (session_state.filtered_gdf # None /\ ViewOf(session_state) = <<>>)
        => FocusOf(zoom_to_current_point(session_state)) = FocusOf(session_state)
    /\ session_state.gdf # None
        => \A crop \in CropNames :
            ViewOf(RebuiltFor(session_state, crop)) = <<>>
                => FocusOf(RebuiltFor(session_state, crop)) = FocusOf(session_state)
    /\ \A up \in EmptyUploads :
            up # uploaded_files_list_widget
                => /\ ViewOf(ScriptRun(session_state, up)) = <<>>
                   /\ FocusOf(ScriptRun(session_state, up)) = FocusOf(session_state)

\* a table without rows was loaded after one with rows: the view is empty
\* and the map still shows the focus computed for the earlier table
C20_Witness ==
    /\ event.op = "upload"
    /\ event.load = "loaded"
    /\ session_state.gdf = Some(<<>>)
    /\ session_state.filtered_gdf = Some(<<>>)
    /\ BatchOf(session_state) = <<>>
    /\ session_state.map_center.kind = "buffer_centre"

\* 1-based view positions of the rows still to validate
OpenPositions(view) == {i \in 1..Len(view) : view[i].validation = "Not Validated"}

\* the j-th of them in view order
OpenPosition(view, j) ==
    CHOOSE i \in OpenPositions(view) :
        Cardinality({m \in OpenPositions(view) : m <= i}) = j

\* positions of the point entries and of the headings of a dropdown
PointPositions(options) == {k \in 1..Len(options) : options[k].kind = "point"}
HeadingPositions(options) == {k \in 1..Len(options) : options[k].kind = "batch"}

\* the heading a point entry at position k stands under
HeadingOf(options, k) ==
    options[CHOOSE h \in HeadingPositions(options) :
                h < k /\ \A m \in (h + 1)..k : options[m].kind = "point"]

\* the dropdown built for ss under a batch size
IndexUnder(ss, batch_size) == non_validated_options([ss EXCEPT !.batch_size = batch_size])

\* the app's batch size and one that cuts the views into more batches
IndexBatchSizes(ss) == {ss.batch_size, MaxBatchSize}

\* C21: wherever the app builds the non-validated dropdown, and for each
\* of these batch sizes: its point entries are, in view order, the S_No and
\* crop_name of exactly the view rows whose validation is Not Validated;
\* the entry of the row at 0-based view position p stands under the
\* heading of batch floor(p / batch_size) (displayed as that number plus
\* one); headings ascend and each gives the number of entries under it;
\* and the script run that builds the dropdown leaves the session state
\* as it was.
C21_NonValidatedIndex ==
    MainAreaShown(session_state) =>
        /\ ScriptRun(session_state, uploaded_files_list_widget) = session_state
        /\ \A batch_size \in IndexBatchSizes(session_state) :
            LET view == ViewOf(session_state)
                options == IndexUnder(session_state, batch_size)
                points == Pick(options, PointPositions(options), 1)
            IN /\ Len(points) = Cardinality(OpenPositions(view))
               /\ \A j \in 1..Len(points) :
                    /\ points[j].S_No = view[OpenPosition(view, j)].S_No
                    /\ points[j].crop_name = view[OpenPosition(view, j)].crop_name
               /\ \A k \in PointPositions(options) :
                    LET j == Cardinality({m \in PointPositions(options) : m <= k})
                    IN /\ \E h \in HeadingPositions(options) : h < k
                       /\ HeadingOf(options, k).batch =
                            (OpenPosition(view, j) - 1) \div batch_size + 1
               /\ \A h \in HeadingPositions(options) :
                    /\ h < Len(options)
                    /\ options[h + 1].kind = "point"
                    /\ options[h].points =
                        Cardinality({k \in PointPositions(options) :
                                        k > h /\ HeadingOf(options, k) = options[h]})
                    /\ \A g \in HeadingPositions(options) :
                        g < h => options[g].batch < options[h].batch

\* one row of the first batch is validated: the dropdown lists the other
\* rows under two headings, the second for the one row of batch 2
C21_Witness ==
    /\ MainAreaShown(session_state)
    /\ validations = 1
    /\ Len(ViewOf(session_state)) = session_state.batch_size + 1
    /\ Cardinality(HeadingPositions(non_validated_options(session_state))) = 2
    /\ non_validated_options(session_state)[1].points = session_state.batch_size - 1
    /\ Cardinality(PointPositions(non_validated_options(session_state)))
            = session_state.batch_size

\* ------------------------------------------------ the stored point index
\* main.py:561-566: the index the map marks as current, computed from the
\* stored point index when the map is drawn
map_current_point_idx(ss) ==
    LET batch_points_df_map ==
            get_current_batch_points(ss, ss.filtered_gdf, ss.batch_size)
    IN IF ss.current_point >= Len(batch_points_df_map)
       THEN (IF Len(batch_points_df_map) > 0
             THEN Len(batch_points_df_map) - 1 ELSE 0)
       ELSE ss.current_point

\* The handlers never leave a point index out of range, so the clamp of
\* the script body is exercised from session states in which a table is
\* loaded, a category shown, the cursor on one of its batches and any
\* value stored as point index.
StoredPoints == 0..(batch_size_default + MaxStale)

InitClamp ==
    /\ \E up \in GoodUploads, crop \in CropNames, b \in 0..1, p \in StoredPoints :
        LET loaded == ScriptRun(InitialSessionState, up)
            shown == update_filtered_data_and_reset_nav(
                        [loaded EXCEPT !.selected_crop = crop])
        IN /\ up.table.rows # <<>>
           /\ crop \in FilterOptions(loaded)
           /\ b < TotalBatches(shown)
           /\ session_state = [shown EXCEPT !.current_batch = b, !.current_point = p]
           /\ uploaded_files_list_widget = up
    /\ event = Event("start", "ok", NoLoad)
    /\ validations = 0

\* a run of the script; the event records the point index the run found
Rerun ==
    /\ session_state' = ScriptRun(session_state, uploaded_files_list_widget)
    /\ event' = [op |-> "rerun",
                 outcome |-> IF session_state.current_point
                                    >= Len(BatchOf(session_state))
                             THEN "clamped" ELSE "ok",
                 load |-> "not_attempted", removed |-> None, s_no |-> 0,
                 found_point |-> session_state.current_point]
    /\ UNCHANGED <<uploaded_files_list_widget, validations>>

NextClamp == Rerun

SpecClamp == InitClamp /\ [][NextClamp]_vars

C23_ViewIsFilterOfStore ==
    (session_state.gdf # None /\ session_state.filtered_gdf # None)
        => IsFilterOf(Get(session_state.filtered_gdf), Get(session_state.gdf),
                      session_state.selected_crop)

\* after a validation click in the Wheat view and a jump, the view shows
\* the validated row as the store has it
C23_Witness ==
    /\ event.op = "jump"
    /\ event.outcome = "ok"
    /\ validations = 1
    /\ session_state.gdf # None
    /\ session_state.selected_crop = "Wheat"
    /\ Len(ViewOf(session_state)) < Len(Get(session_state.gdf))
    /\ \E i \in 1..Len(ViewOf(session_state)) :
            ViewOf(session_state)[i].validation \in Statuses

\* new is old with at most the validation of the row labelled label
\* changed
OnlyRowChanged(old, new, label) ==
    /\ Len(new) = Len(old)
    /\ \A i \in 1..Len(old) :
        IF old[i].index = label
        THEN new[i] = [old[i] EXCEPT !.validation = new[i].validation]
        ELSE new[i] = old[i]

\* C24: a Correct/Incorrect click gives the clicked status to the one
\* store row and the one view row under the cursor and leaves every other
\* row of the store and of the view, and the selected category, as they
\* were.
C24_ValidateFrame ==
    [][event'.op \in Statuses =>
        LET label == current_global_idx(session_state)
        IN /\ Cardinality(RowsAt(Get(session_state.gdf), label)) = 1
           /\ Cardinality(RowsAt(ViewOf(session_state), label)) = 1
           /\ OnlyRowChanged(Get(session_state.gdf), Get(session_state'.gdf), label)
           /\ OnlyRowChanged(ViewOf(session_state), ViewOf(session_state'), label)
           /\ \A i \in RowsAt(Get(session_state'.gdf), label) :
                Get(session_state'.gdf)[i].validation = event'.op
           /\ session_state'.selected_crop = session_state.selected_crop]_vars

\* Correct was clicked on a row whose S_No another row of the store
\* carries too: one row is Correct, the other kept its value
C24_Witness ==
    /\ event.op = "Correct"
    /\ session_state.gdf # None
    /\ \E i, j \in 1..Len(Get(session_state.gdf)) :
            /\ i # j
            /\ Get(session_state.gdf)[i].S_No = Get(session_state.gdf)[j].S_No
            /\ Get(session_state.gdf)[i].index = current_global_idx(session_state)
            /\ Get(session_state.gdf)[i].validation = "Correct"
            /\ Get(session_state.gdf)[j].validation # "Correct"

\* C25: in a navigation, jump, filter or Correct/Incorrect step every
\* store row that was Correct or Incorrect still is one of the two
\* afterwards, in the store and wherever the view shows it, and a
\* Correct/Incorrect click on a row that already had a status leaves it
\* with the status clicked last.
C25_ValidatedStaysValidated ==
    [][(event'.op \in NavigationOps \cup Statuses /\ session_state.gdf # None)
        => /\ session_state'.gdf # None
           /\ Len(Get(session_state'.gdf)) = Len(Get(session_state.gdf))
           /\ \A i \in 1..Len(Get(session_state.gdf)) :
                Get(session_state.gdf)[i].validation \in Statuses
                    => /\ Get(session_state'.gdf)[i].index = Get(session_state.gdf)[i].index
                       /\ Get(session_state'.gdf)[i].validation \in Statuses
                       /\ \A k \in RowsAt(ViewOf(session_state'),
                                          Get(session_state.gdf)[i].index) :
                            ViewOf(session_state')[k].validation \in Statuses
                       /\ (event'.op \in Statuses
                           /\ Get(session_state.gdf)[i].index
                                = current_global_idx(session_state))
                            => Get(session_state'.gdf)[i].validation = event'.op]_vars

\* Incorrect was clicked on a row that was loaded as Correct
C25_Witness ==
    /\ event.op = "Incorrect"
    /\ session_state.gdf # None
    /\ "validation" \in uploaded_files_list_widget.table.columns
    /\ MapValidation(uploaded_files_list_widget.table.rows[
            current_global_idx(session_state) + 1].validation) = "Correct"
    /\ ILoc(BatchOf(session_state), session_state.current_point).validation = "Incorrect"
    /\ \E i \in RowsAt(Get(session_state.gdf), current_global_idx(session_state)) :
            Get(session_state.gdf)[i].validation = "Incorrect"

\* ------------------------------------------------------ validation summary
\* main.py:486-490: the "Validated: v/t" line
total_points(ss) == Len(Get(ss.filtered_gdf))
validated_points(ss) ==
    Cardinality({i \in 1..Len(Get(ss.filtered_gdf)) :
                    \/ Get(ss.filtered_gdf)[i].validation = "Correct"
                    \/ Get(ss.filtered_gdf)[i].validation = "Incorrect"})

\* main.py:498, 520-521: "All points in the current filter are validated!"
\* is displayed instead of the dropdown
all_validated_message(ss) == non_validated_points(ss) = <<>>

\* C26 (as claimed): wherever the summary is displayed, the number of view
\* rows counted as validated plus the number of point entries of the
\* non-validated dropdown is the length of the view, and the all-validated
\* message is displayed only if every view row is Correct or Incorrect.
C26_SummaryAccounts ==
    MainAreaShown(session_state) =>
        /\ validated_points(session_state)
             + PointEntries(non_validated_options(session_state))
                = total_points(session_state)
        /\ all_validated_message(session_state)
            => \A i \in 1..Len(ViewOf(session_state)) :
                    ViewOf(session_state)[i].validation \in Statuses

====
